---- MODULE Spec2Model ----
(***************************************************************************)
(* quad-net: the threaded Request (http_request.rs), the RequestBuilder    *)
(* and its two send() realizations, and the TcpSocket with its background  *)
(* frame decoder (quad_socket/client/tcp.rs).                              *)
(*                                                                         *)
(* The families share no state in the program; each has its own           *)
(* specification over its own variables (SpecRequest and SpecWorkerFair,   *)
(* SpecBuilder, SpecTcp, SpecSend and SpecSock, SpecCoop) and leaves the   *)
(* other families' variables unchanged.                                    *)
(***************************************************************************)
EXTENDS Integers, Sequences, FiniteSets, TLC

VARIABLES
    \* ---- threaded Request (http_request.rs 51-69, 154-188)
    wpc,        \* worker closure position: "spawned", "calling", "sending",
                \* "done", "panicked" (in unwrap), "faulted" (before the send)
    response,   \* the worker's local `response` once the transport call returned
    chan,       \* mpsc channel buffer: values sent and not yet received
    rxAlive,    \* the Request (Receiver) has not been dropped
    txAlive,    \* the Sender has not been dropped (the worker still holds tx)
    delivered,  \* history: tx.send(response) returned Ok
    polls,      \* history: every poll made on the handle, in call order
    nCalls,     \* history: number of transport calls the worker has issued
    nSends,     \* history: number of tx.send calls the worker has made
    \* ---- RequestBuilder and send() (http_request.rs 106-228)
    target,     \* build target: "native" (threaded send) or "wasm32" (cooperative)
    builder,    \* the RequestBuilder value
    bpc,        \* "building", or "sent" once send() has been called
    sentFrom,   \* history: the builder value send() was last called on
    ureqReq,    \* native: the ureq request the worker built and sent
    hostCall,   \* wasm32: the arguments of the last http_make_request call
    nHostCalls, \* history: number of http_make_request calls issued
    calls,      \* history: new(url) and the builder operations called since
    \* ---- TcpSocket (quad_socket/client/tcp.rs)
    peerFrames, \* history: the payloads the peer has written, one frame each
    stream,     \* every byte that has arrived on the read half, in order
    rpos,       \* number of bytes of stream the reader thread has consumed
    rdLen,      \* MessageReader: length of the frame being read, -1 if unknown
    rdBuf,      \* MessageReader: payload bytes accumulated so far
    queue,      \* mpsc channel buffer between the reader thread and try_recv
    tpc,        \* reader thread: "running" or "panicked"
    sockAlive,  \* the TcpSocket (stream, rx) has not been dropped
    readFailed, \* history: some next() call has returned Err
    pushedAfterErr, \* history: next() completed a frame after a failed read
    pushed,     \* history: the messages next() returned as complete
    recvs,      \* history: every try_recv made, in call order
    outWire,    \* every byte written to the write half, in order
    sends,      \* history: every send() call
    fgpc,       \* foreground thread: "running" or "panicked"
    \* ---- cooperative Request (http_request.rs 45-49, 72-104)
    cid,        \* Request.cid, the correlation id
    madeCid,    \* history: the id http_make_request returned to send()
    hostLog,    \* history: the id passed in each http_try_recv call
    cpolls      \* history: every poll: kind, the host's answer, the return

reqVars == <<wpc, response, chan, rxAlive, txAlive, delivered, polls,
            nCalls, nSends>>

bldVars == <<target, builder, bpc, sentFrom, ureqReq, hostCall, nHostCalls,
            calls>>

rcvVars == <<peerFrames, stream, rpos, rdLen, rdBuf, queue, tpc, sockAlive,
             readFailed, pushedAfterErr, pushed, recvs>>
sndVars == <<outWire, sends, fgpc>>
coopVars == <<cid, madeCid, hostLog, cpolls>>

vars == <<reqVars, bldVars, rcvVars, sndVars, coopVars>>

notReqVars == <<bldVars, rcvVars, sndVars, coopVars>>
notBldVars == <<reqVars, rcvVars, sndVars, coopVars>>
notRcvVars == <<reqVars, bldVars, sndVars, coopVars>>
notSndVars == <<reqVars, bldVars, rcvVars, coopVars>>
notCoopVars == <<reqVars, bldVars, rcvVars, sndVars>>

----------------------------------------------------------------------------
(* Bounds *)

MaxPolls == 4
MaxAppends == 3     \* header() and query() calls on one builder
MaxCalls == 3       \* method/header/query/body calls on one builder
MaxFrames == 3      \* frames the peer writes
MaxRecvs == 4       \* try_recv calls
MaxSends == 2       \* send calls
MaxSockFrames == 2  \* frames the peer writes while both directions run
MaxSockRecvs == 2   \* try_recv calls while both directions run
MaxSockSends == 1   \* send calls while both directions run
MaxCoopPolls == 3   \* polls on one cooperative Request

----------------------------------------------------------------------------
(* Values *)

NoneV == [tag |-> "None", val |-> <<>>, err |-> ""]
SomeOk(s) == [tag |-> "SomeOk", val |-> s, err |-> ""]
SomeErr(e) == [tag |-> "SomeErr", val |-> <<>>, err |-> e]
SomeBytes(b) == [tag |-> "SomeBytes", val |-> b, err |-> ""]

\* Result<Vec<u8>, HttpError>
OkR(b) == [ok |-> TRUE, val |-> b, err |-> ""]
ErrR(e) == [ok |-> FALSE, val |-> <<>>, err |-> e]

\* Response bodies the transport may hand back: empty, ASCII "hi", the
\* two-byte encoding of U+00E9, and three byte strings that are not UTF-8
\* (a lone 0xFF, a truncated two-byte sequence, a stray continuation byte).
ResponseBodies ==
    { <<>>, <<104, 105>>, <<195, 169>>, <<255>>, <<195>>, <<104, 128>> }

TransportResults ==
    { OkR(b) : b \in ResponseBodies } \cup { ErrR("UreqError"), ErrR("IOError") }

----------------------------------------------------------------------------
(* String::from_utf8: the validation and decoding of a byte vector.  A      *)
(* String is modelled by the sequence of code points its bytes decode to.  *)

IsCont(b) == b >= 128 /\ b <= 191

\* Number of bytes of the well-formed sequence starting at s[i], 0 if none.
Utf8SeqLen(s, i) ==
    LET b0 == s[i]
        n  == Len(s) - i + 1
    IN  IF b0 < 128 THEN 1
        ELSE IF b0 >= 194 /\ b0 <= 223
        THEN IF n >= 2 /\ IsCont(s[i+1]) THEN 2 ELSE 0
        ELSE IF b0 >= 224 /\ b0 <= 239
        THEN IF /\ n >= 3
                /\ IsCont(s[i+1]) /\ IsCont(s[i+2])
                /\ (b0 = 224 => s[i+1] >= 160)
                /\ (b0 = 237 => s[i+1] <= 159)
             THEN 3 ELSE 0
        ELSE IF b0 >= 240 /\ b0 <= 244
        THEN IF /\ n >= 4
                /\ IsCont(s[i+1]) /\ IsCont(s[i+2]) /\ IsCont(s[i+3])
                /\ (b0 = 240 => s[i+1] >= 144)
                /\ (b0 = 244 => s[i+1] <= 143)
             THEN 4 ELSE 0
        ELSE 0

Utf8CodePoint(s, i, k) ==
    CASE k = 1 -> s[i]
      [] k = 2 -> (s[i] - 192) * 64 + (s[i+1] - 128)
      [] k = 3 -> (s[i] - 224) * 4096 + (s[i+1] - 128) * 64 + (s[i+2] - 128)
      [] k = 4 -> (s[i] - 240) * 262144 + (s[i+1] - 128) * 4096
                    + (s[i+2] - 128) * 64 + (s[i+3] - 128)

RECURSIVE Utf8From(_, _)
\* [ok, chars]: the decoding of s from index i on.
Utf8From(s, i) ==
    IF i > Len(s) THEN [ok |-> TRUE, chars |-> <<>>]
    ELSE LET k == Utf8SeqLen(s, i)
         IN  IF k = 0 THEN [ok |-> FALSE, chars |-> <<>>]
             ELSE LET rest == Utf8From(s, i + k)
                  IN  IF rest.ok
                      THEN [ok |-> TRUE,
                            chars |-> <<Utf8CodePoint(s, i, k)>> \o rest.chars]
                      ELSE rest

\* String::from_utf8(res).map_err(|_| HttpError::NotStrError)
FromUtf8Lossy(res) ==
    LET d == Utf8From(res, 1)
    IN  SomeOk(IF d.ok THEN d.chars ELSE res)

FromUtf8(res) ==
    LET d == Utf8From(res, 1)
    IN  IF d.ok THEN SomeOk(d.chars) ELSE SomeErr("NotStrError")

----------------------------------------------------------------------------
(* std::sync::mpsc: Receiver::try_recv on the channel buffer.               *)
(* Ok(v) removes the oldest value; with nothing buffered it is Err(Empty)   *)
(* while a Sender lives (conn) and Err(Disconnected) once it is dropped.   *)

ChanPeek(c, conn) ==
    IF c # <<>> THEN [ok |-> TRUE, val |-> Head(c), rest |-> c]
    ELSE [ok |-> FALSE, rest |-> c,
          val |-> ErrR(IF conn THEN "Empty" ELSE "Disconnected")]

ChanTryRecv(c, conn) ==
    IF c # <<>> THEN [ok |-> TRUE, val |-> Head(c), rest |-> Tail(c)]
    ELSE [ok |-> FALSE, rest |-> c,
          val |-> ErrR(IF conn THEN "Empty" ELSE "Disconnected")]

----------------------------------------------------------------------------
(* Request::try_recv_str / try_recv_bytes: the value each returns for the   *)
(* outcome r of self.rx.try_recv().                                        *)

\* Err(TryRecvError::Disconnected) reported to the caller as an error.
StrResultDisconnectedErr(r) ==
    IF r.ok
    THEN IF r.val.ok THEN FromUtf8(r.val.val) ELSE SomeErr(r.val.err)
    ELSE IF r.val.err = "Disconnected" THEN SomeErr("IOError") ELSE NoneV

\* match self.rx.try_recv() { Ok(Ok(res)) => .., Ok(Err(e)) => .., Err(_) => None }
StrResult(r) ==
    IF r.ok
    THEN IF r.val.ok THEN FromUtf8(r.val.val) ELSE SomeErr(r.val.err)
    ELSE NoneV

\* Some(self.rx.try_recv().ok()?.ok()?)
BytesResult(r) ==
    IF r.ok /\ r.val.ok THEN SomeBytes(r.val.val) ELSE NoneV

PollRec(op, ret) ==
    [op |-> op, ret |-> ret, after |-> delivered, conn |-> txAlive]

\* try_recv() replaced by the blocking recv(): the poll waits for a value.
TryRecvStrBlocking ==
    /\ rxAlive
    /\ Len(polls) < MaxPolls
    /\ chan # <<>>
    /\ LET r == ChanTryRecv(chan, txAlive)
       IN  /\ chan' = r.rest
           /\ polls' = Append(polls, PollRec("str", StrResult(r)))
    /\ UNCHANGED <<wpc, response, rxAlive, txAlive, delivered, nCalls, nSends,
                   notReqVars>>

TryRecvStr ==
    /\ rxAlive
    /\ Len(polls) < MaxPolls
    /\ LET r == ChanTryRecv(chan, txAlive)
       IN  /\ chan' = r.rest
           /\ polls' = Append(polls, PollRec("str", StrResult(r)))
    /\ UNCHANGED <<wpc, response, rxAlive, txAlive, delivered, nCalls, nSends,
                   notReqVars>>

TryRecvBytes ==
    /\ rxAlive
    /\ Len(polls) < MaxPolls
    /\ LET r == ChanTryRecv(chan, txAlive)
       IN  /\ chan' = r.rest
           /\ polls' = Append(polls, PollRec("bytes", BytesResult(r)))
    /\ UNCHANGED <<wpc, response, rxAlive, txAlive, delivered, nCalls, nSends,
                   notReqVars>>

\* The caller drops the Request: the Receiver and anything buffered go away.
DropRequest ==
    /\ rxAlive
    /\ rxAlive' = FALSE
    /\ chan' = <<>>
    /\ UNCHANGED <<wpc, response, txAlive, delivered, polls, nCalls, nSends,
                   notReqVars>>

----------------------------------------------------------------------------
(* The worker closure of RequestBuilder::send (threaded).                   *)

\* The spawned closure builds the request and enters the blocking transport
\* call (request.send(&body) / request.send_empty()).
WorkerCall ==
    /\ wpc = "spawned"
    /\ wpc' = "calling"
    /\ nCalls' = nCalls + 1
    /\ UNCHANGED <<response, chan, rxAlive, txAlive, delivered, polls, nSends,
                   notReqVars>>

\* A failed call tried again: on Err the worker goes back to make the call anew.
WorkerReturnRetry ==
    /\ wpc = "calling"
    /\ \E r \in TransportResults :
          /\ response' = r
          /\ wpc' = IF r.ok THEN "sending" ELSE "spawned"
    /\ UNCHANGED <<chan, rxAlive, txAlive, delivered, polls, nCalls, nSends,
                   notReqVars>>

\* The blocking transport call returns; `response` is bound.  A call that
\* never returns leaves the worker at "calling" for ever.
WorkerReturn ==
    /\ wpc = "calling"
    /\ \E r \in TransportResults : response' = r
    /\ wpc' = "sending"
    /\ UNCHANGED <<chan, rxAlive, txAlive, delivered, polls, nCalls, nSends,
                   notReqVars>>

\* A panic unwinds out of the transport call: the closure ends before
\* tx.send, nothing is delivered and tx is dropped.
WorkerFault ==
    /\ wpc = "calling"
    /\ wpc' = "faulted"
    /\ txAlive' = FALSE
    /\ UNCHANGED <<response, chan, rxAlive, delivered, polls, nCalls, nSends,
                   notReqVars>>

\* The send issued twice (a re-delivery): two values reach the channel.
WorkerSendTwice ==
    /\ wpc = "sending"
    /\ IF rxAlive
       THEN /\ chan' = chan \o <<response, response>>
            /\ delivered' = TRUE
            /\ wpc' = "done"
       ELSE /\ wpc' = "panicked"
            /\ UNCHANGED <<chan, delivered>>
    /\ txAlive' = FALSE
    /\ nSends' = nSends + 1
    /\ UNCHANGED <<response, rxAlive, polls, nCalls, notReqVars>>

\* tx.send(response).unwrap(): Sender::send is Err once the Receiver is
\* dropped, and unwrap() then panics the worker thread.  Either way the
\* closure ends and tx is dropped.
WorkerSend ==
    /\ wpc = "sending"
    /\ IF rxAlive
       THEN /\ chan' = Append(chan, response)
            /\ delivered' = TRUE
            /\ wpc' = "done"
       ELSE /\ wpc' = "panicked"
            /\ UNCHANGED <<chan, delivered>>
    /\ txAlive' = FALSE
    /\ nSends' = nSends + 1
    /\ UNCHANGED <<response, rxAlive, polls, nCalls, notReqVars>>


----------------------------------------------------------------------------
(* RequestBuilder.  A String is a sequence of one-character strings, so    *)
(* that format! and join are concatenations that can be parsed back.       *)

Methods == { "Post", "Put", "Get", "Delete" }
Urls == { <<"u">>, <<"w", "/">> }
HeaderNames == { <<"a">>, <<"b">> }
QueryKeys == { <<"k">>, <<"m">> }
FieldValues == { <<"1">>, <<"2", "3">> }
Bodies == { <<>>, <<"x">> }

NoBody == [some |-> FALSE, val |-> <<>>]
SomeBody(b) == [some |-> TRUE, val |-> b]

\* RequestBuilder::new
BuilderNew(url) ==
    [url |-> url, method |-> "Get", headers |-> <<>>, query |-> <<>>,
     body |-> NoBody]

NoUreqReq ==
    [verb |-> "", url |-> <<>>, forceSendBody |-> FALSE, headers |-> <<>>,
     query |-> <<>>, body |-> NoBody]
NoHostCall == [scheme |-> -1, url |-> <<>>, body |-> <<>>, headers |-> <<>>]

Call(op, a, b) == [op |-> op, a |-> a, b |-> b]

\* One send() per builder: send(self) consumes it (native); send(&self) only
\* borrows it (wasm32), and the caller makes no further use of it here.
Usable == bpc = "building"

\* calls[1] is new(url).
CanCall == Usable /\ Len(calls) <= MaxCalls

CanAppend == CanCall /\ Len(builder.headers) + Len(builder.query) < MaxAppends

\* method(m) that also starts the body afresh.
SetMethodResetsBody ==
    /\ CanCall
    /\ \E m \in Methods :
          /\ builder' = [builder EXCEPT !.method = m, !.body = NoBody]
          /\ calls' = Append(calls, Call("method", m, <<>>))
    /\ UNCHANGED <<target, bpc, sentFrom, ureqReq, hostCall, nHostCalls,
                   notBldVars>>

\* RequestBuilder::method
SetMethod ==
    /\ CanCall
    /\ \E m \in Methods :
          /\ builder' = [builder EXCEPT !.method = m]
          /\ calls' = Append(calls, Call("method", m, <<>>))
    /\ UNCHANGED <<target, bpc, sentFrom, ureqReq, hostCall, nHostCalls,
                   notBldVars>>

\* RequestBuilder::header
AddHeader ==
    /\ CanAppend
    /\ \E h \in HeaderNames, v \in FieldValues :
          /\ builder' = [builder EXCEPT !.headers = Append(@, <<h, v>>)]
          /\ calls' = Append(calls, Call("header", h, v))
    /\ UNCHANGED <<target, bpc, sentFrom, ureqReq, hostCall, nHostCalls,
                   notBldVars>>

\* RequestBuilder::query
AddQuery ==
    /\ CanAppend
    /\ \E k \in QueryKeys, v \in FieldValues :
          /\ builder' = [builder EXCEPT !.query = Append(@, <<k, v>>)]
          /\ calls' = Append(calls, Call("query", k, v))
    /\ UNCHANGED <<target, bpc, sentFrom, ureqReq, hostCall, nHostCalls,
                   notBldVars>>

\* RequestBuilder::body
SetBody ==
    /\ CanCall
    /\ \E b \in Bodies :
          /\ builder' = [builder EXCEPT !.body = SomeBody(b)]
          /\ calls' = Append(calls, Call("body", b, <<>>))
    /\ UNCHANGED <<target, bpc, sentFrom, ureqReq, hostCall, nHostCalls,
                   notBldVars>>

----------------------------------------------------------------------------
(* send(), threaded: the ureq request the worker builds.  ureq's            *)
(* RequestBuilder::header and ::query each add one pair to the request.    *)

UreqNew(method, url) ==
    [verb |-> method, url |-> url,
     forceSendBody |-> method \in {"Get", "Delete"},
     headers |-> <<>>, query |-> <<>>, body |-> NoBody]

RECURSIVE UreqHeaders(_, _)
\* for (header, value) in self.headers { request = request.header(header, value) }
UreqHeaders(req, hs) ==
    IF hs = <<>> THEN req
    ELSE UreqHeaders([req EXCEPT !.headers = Append(@, Head(hs))], Tail(hs))

RECURSIVE UreqQuery(_, _)
\* for (key, value) in self.query { request = request.query(key, value) }
UreqQuery(req, qs) ==
    IF qs = <<>> THEN req
    ELSE UreqQuery([req EXCEPT !.query = Append(@, Head(qs))], Tail(qs))

\* request.send(&body) / request.send_empty()
UreqBuild(b) ==
    [UreqQuery(UreqHeaders(UreqNew(b.method, b.url), b.headers), b.query)
        EXCEPT !.body = b.body]

\* send(self): the builder is consumed.
SendThreaded ==
    /\ target = "native"
    /\ Usable
    /\ ureqReq' = UreqBuild(builder)
    /\ sentFrom' = builder
    /\ bpc' = "sent"
    /\ UNCHANGED <<target, builder, hostCall, nHostCalls, calls, notBldVars>>

----------------------------------------------------------------------------
(* send(), cooperative: the arguments of http_make_request.  A JsObject is *)
(* the sequence of its own fields in insertion order; set_field_string is  *)
(* the assignment obj[name] = value.                                       *)

\* The codes numbered from Get, the default method.
SchemeCodeGetFirst(m) ==
    CASE m = "Get" -> 0
      [] m = "Post" -> 1
      [] m = "Put" -> 2
      [] m = "Delete" -> 3

\* let scheme = match self.method { .. }
SchemeCode(m) ==
    CASE m = "Post" -> 0
      [] m = "Put" -> 1
      [] m = "Get" -> 2
      [] m = "Delete" -> 3

JsHasField(obj, name) == \E i \in 1..Len(obj) : obj[i][1] = name

JsSetFieldString(obj, name, value) ==
    IF JsHasField(obj, name)
    THEN [i \in 1..Len(obj) |->
            IF obj[i][1] = name THEN <<name, value>> ELSE obj[i]]
    ELSE Append(obj, <<name, value>>)

RECURSIVE JsHeaders(_, _)
\* for (header, value) in &self.headers { headers.set_field_string(..) }
JsHeaders(obj, hs) ==
    IF hs = <<>> THEN obj
    ELSE JsHeaders(JsSetFieldString(obj, Head(hs)[1], Head(hs)[2]), Tail(hs))

\* format!("{k}={v}")
FormatPair(kv) == kv[1] \o <<"=">> \o kv[2]

RECURSIVE Join(_, _)
\* Vec<String>::join(sep)
Join(strs, sep) ==
    IF strs = <<>> THEN <<>>
    ELSE IF Len(strs) = 1 THEN Head(strs)
    ELSE Head(strs) \o sep \o Join(Tail(strs), sep)

WasmUrl(b) ==
    IF b.query # <<>>
    THEN b.url \o <<"?">>
           \o Join([i \in 1..Len(b.query) |-> FormatPair(b.query[i])], <<"&">>)
    ELSE b.url

WasmCall(b) ==
    [scheme |-> SchemeCode(b.method),
     url |-> WasmUrl(b),
     body |-> IF b.body.some THEN b.body.val ELSE <<>>,
     headers |-> JsHeaders(<<>>, b.headers)]

\* send(&self)
SendWasm ==
    /\ target = "wasm32"
    /\ Usable
    /\ hostCall' = WasmCall(builder)
    /\ nHostCalls' = nHostCalls + 1
    /\ sentFrom' = builder
    /\ bpc' = "sent"
    /\ UNCHANGED <<target, builder, ureqReq, calls, notBldVars>>

BldIdle ==
    /\ target = "native"
    /\ builder = BuilderNew(<<>>)
    /\ bpc = "idle"
    /\ sentFrom = BuilderNew(<<>>)
    /\ ureqReq = NoUreqReq
    /\ hostCall = NoHostCall
    /\ nHostCalls = 0
    /\ calls = <<>>

----------------------------------------------------------------------------
(* The framing protocol: one length byte, then that many payload bytes.    *)

\* What the peer writes for payload p (Len(p) <= 255).
Frame(p) == <<Len(p)>> \o p

RECURSIVE Frames(_)
\* The byte stream of a sequence of payloads.
Frames(ps) == IF ps = <<>> THEN <<>> ELSE Frame(Head(ps)) \o Frames(Tail(ps))

\* Payloads the peer sends: "abc", the empty payload and "hello".
FramePayloads ==
    { <<97, 98, 99>>, <<>>, <<104, 101, 108, 108, 111>> }

(* MessageReader (quad_socket::protocol).  Its state is the expected length *)
(* (-1 while no length is known) and the payload accumulated so far.        *)
MessageReaderNew == [len |-> -1, buf |-> <<>>]

\* MessageReader::next on reader state rd, with `avail` the unread bytes of
\* the stream and k the number of payload bytes the underlying read returns.
\* If no length is known it reads one length byte; then it accumulates
\* payload bytes; the frame is returned once it is complete.
\* Result: the new state, the number of bytes consumed, and Some(msg) / None.
MessageReaderNext(rd, avail, k) ==
    IF rd.len = -1 /\ avail = <<>>
    THEN [rd |-> rd, used |-> 0, some |-> FALSE, msg |-> <<>>]
    ELSE LET haveLen == rd.len # -1
             len   == IF haveLen THEN rd.len ELSE avail[1]
             buf0  == IF haveLen THEN rd.buf ELSE <<>>
             off   == IF haveLen THEN 0 ELSE 1
             want  == len - Len(buf0)
             room  == Len(avail) - off
             n     == IF k < want
                      THEN (IF k < room THEN k ELSE room)
                      ELSE (IF want < room THEN want ELSE room)
             buf   == buf0 \o SubSeq(avail, off + 1, off + n)
         IN  IF Len(buf) = len
             THEN [rd |-> MessageReaderNew, used |-> off + n,
                   some |-> TRUE, msg |-> buf]
             ELSE [rd |-> [len |-> len, buf |-> buf], used |-> off + n,
                   some |-> FALSE, msg |-> <<>>]

----------------------------------------------------------------------------
(* TcpSocket: the reader thread spawned by connect, and try_recv.          *)

\* The peer writes one well-formed frame; its bytes arrive on the read half.
PeerWrite ==
    /\ Len(peerFrames) < MaxFrames
    /\ \E p \in FramePayloads :
          /\ peerFrames' = Append(peerFrames, p)
          /\ stream' = stream \o Frame(p)
    /\ UNCHANGED <<rpos, rdLen, rdBuf, queue, tpc, sockAlive, readFailed,
                   pushedAfterErr, pushed, recvs, notRcvVars>>

Unread == SubSeq(stream, rpos + 1, Len(stream))

\* A MessageReader made anew in each iteration instead of once before the loop.
LoopReaderFresh == MessageReaderNew

\* let mut messages = MessageReader::new(), kept across the iterations.
LoopReader == [len |-> rdLen, buf |-> rdBuf]

\* The result of tx.send dropped instead of unwrapped: let _ = tx.send(message).
ReaderStepIgnoresSendErr ==
    /\ tpc = "running"
    /\ \E k \in 0..Len(Unread) :
         LET r == MessageReaderNext(LoopReader, Unread, k)
         IN  /\ rdLen' = r.rd.len
             /\ rdBuf' = r.rd.buf
             /\ rpos' = rpos + r.used
             /\ IF r.some
                THEN /\ pushed' = Append(pushed, r.msg)
                     /\ pushedAfterErr' = (pushedAfterErr \/ readFailed)
                     /\ tpc' = tpc
                     /\ queue' = IF sockAlive THEN Append(queue, r.msg) ELSE queue
                ELSE UNCHANGED <<pushed, pushedAfterErr, queue, tpc>>
    /\ UNCHANGED <<peerFrames, stream, sockAlive, readFailed, recvs, notRcvVars>>

\* One iteration of the loop in which next() returns Ok:
\* if let Ok(Some(message)) = messages.next(&mut stream) { tx.send(message).unwrap() }
ReaderStep ==
    /\ tpc = "running"
    /\ \E k \in 0..Len(Unread) :
         LET r == MessageReaderNext(LoopReader, Unread, k)
         IN  /\ rdLen' = r.rd.len
             /\ rdBuf' = r.rd.buf
             /\ rpos' = rpos + r.used
             /\ IF r.some
                THEN /\ pushed' = Append(pushed, r.msg)
                     /\ pushedAfterErr' = (pushedAfterErr \/ readFailed)
                     /\ IF sockAlive
                        THEN queue' = Append(queue, r.msg) /\ tpc' = tpc
                        ELSE tpc' = "panicked" /\ queue' = queue
                ELSE UNCHANGED <<pushed, pushedAfterErr, queue, tpc>>
    /\ UNCHANGED <<peerFrames, stream, sockAlive, readFailed, recvs, notRcvVars>>

\* The Err of next() propagated out of the loop: the thread ends.
ReaderReadErrExits ==
    /\ tpc = "running"
    /\ readFailed' = TRUE
    /\ tpc' = "stopped"
    /\ UNCHANGED <<peerFrames, stream, rpos, rdLen, rdBuf, queue,
                   sockAlive, pushedAfterErr, pushed, recvs, notRcvVars>>

\* One iteration in which next() returns Err (the read failed): the pattern
\* does not match, nothing is pushed and the loop goes on.
ReaderReadErr ==
    /\ tpc = "running"
    /\ readFailed' = TRUE
    /\ UNCHANGED <<peerFrames, stream, rpos, rdLen, rdBuf, queue, tpc,
                   sockAlive, pushedAfterErr, pushed, recvs, notRcvVars>>

RecvRec(r) ==
    [some |-> r.ok, val |-> IF r.ok THEN r.val ELSE <<>>, npushed |-> Len(pushed)]

\* self.rx.try_recv() taking the newest message instead of the oldest.
QueueTryRecvNewest(q) ==
    IF q # <<>>
    THEN [ok |-> TRUE, val |-> q[Len(q)], rest |-> SubSeq(q, 1, Len(q) - 1)]
    ELSE [ok |-> FALSE, val |-> <<>>, rest |-> q]

\* self.rx.try_recv() on the delivery queue
QueueTryRecv(q) == ChanTryRecv(q, tpc = "running")

\* TcpSocket::try_recv
TcpTryRecv ==
    /\ sockAlive
    /\ Len(recvs) < MaxRecvs
    /\ LET r == QueueTryRecv(queue)
       IN  /\ queue' = r.rest
           /\ recvs' = Append(recvs, RecvRec(r))
    /\ UNCHANGED <<peerFrames, stream, rpos, rdLen, rdBuf, tpc, sockAlive,
                   readFailed, pushedAfterErr, pushed, notRcvVars>>

\* The caller drops the TcpSocket: rx and what it buffers go away; the
\* reader thread keeps its own clone of the stream and its tx.
DropSocket ==
    /\ sockAlive
    /\ sockAlive' = FALSE
    /\ queue' = <<>>
    /\ UNCHANGED <<peerFrames, stream, rpos, rdLen, rdBuf, tpc, readFailed,
                   pushedAfterErr, pushed, recvs, notRcvVars>>

----------------------------------------------------------------------------
(* TcpSocket::send.                                                        *)

\* data.len() as u8
U8(n) == n % 256

Fill(n) == [i \in 1..n |-> ((i - 1) % 7) + 1]

\* Payloads given to send: empty, short ones, the longest one a length byte
\* can describe (255 bytes) and one byte more (256 bytes).
SendPayloads == { <<>>, <<9>>, <<1, 0>>, Fill(255), Fill(256) }

\* Write::write(buf) on the stream makes one attempt: Ok(n) with n bytes of
\* buf written (n may be less than buf.len()), or Err.  -1 stands for Err.
\* The counts tried: all of buf, one byte, all but one byte.
WriteResults(buf) ==
    IF buf = <<>> THEN {0, -1}
    ELSE ({Len(buf), 1, Len(buf) - 1} \ {0}) \cup {-1}

\* TcpSocket::send: write(&[data.len() as u8]).unwrap(); write(data).unwrap().
\* The counts the writes return are dropped; an Err panics the caller.
TcpSend ==
    /\ sockAlive
    /\ fgpc = "running"
    /\ Len(sends) < MaxSends
    /\ \E data \in SendPayloads :
       \E n1 \in WriteResults(<<U8(Len(data))>>) :
       \E n2 \in WriteResults(data) :
         LET lenByte == U8(Len(data))
         IN  IF n1 = -1
             THEN /\ fgpc' = "panicked"
                  /\ outWire' = outWire
                  /\ sends' = Append(sends,
                        [data |-> data, lenByte |-> -1, wrote |-> -1,
                         completed |-> FALSE])
             ELSE IF n2 = -1
             THEN /\ fgpc' = "panicked"
                  /\ outWire' = outWire \o <<lenByte>>
                  /\ sends' = Append(sends,
                        [data |-> data, lenByte |-> lenByte, wrote |-> -1,
                         completed |-> FALSE])
             ELSE /\ fgpc' = fgpc
                  /\ outWire' = outWire \o <<lenByte>> \o SubSeq(data, 1, n2)
                  /\ sends' = Append(sends,
                        [data |-> data, lenByte |-> lenByte, wrote |-> n2,
                         completed |-> TRUE])
    /\ UNCHANGED notSndVars

RcvIdle ==
    /\ peerFrames = <<>>
    /\ stream = <<>>
    /\ rpos = 0
    /\ rdLen = -1
    /\ rdBuf = <<>>
    /\ queue = <<>>
    /\ tpc = "idle"
    /\ sockAlive = FALSE
    /\ readFailed = FALSE
    /\ pushedAfterErr = FALSE
    /\ pushed = <<>>
    /\ recvs = <<>>

SndIdle ==
    /\ outWire = <<>>
    /\ sends = <<>>
    /\ fgpc = "idle"

----------------------------------------------------------------------------
(* Cooperative Request (wasm32): each poll asks the host.  A JsObject the  *)
(* host hands back is nil or a byte buffer.                                *)

JsNil == [nil |-> TRUE, bytes |-> <<>>]
JsBuffer(b) == [nil |-> FALSE, bytes |-> b]

\* What http_try_recv may hand back: the host is free to answer nil or any
\* payload on every call.
HostAnswers == {JsNil} \cup { JsBuffer(b) : b \in ResponseBodies }

\* The ids http_make_request may have returned.
CorrelationIds == { 0, 7 }

\* A nil answer read as an empty buffer.
WasmStrResultNilAsEmpty(js) == FromUtf8(js.bytes)

\* if js_obj.is_nil() == false { to_byte_buffer; Some(String::from_utf8(buf)..) } else { None }
WasmStrResult(js) == IF js.nil = FALSE THEN FromUtf8(js.bytes) ELSE NoneV

\* if js_obj.is_nil() == false { to_byte_buffer; Some(buf) } else { None }
WasmBytesResult(js) == IF js.nil = FALSE THEN SomeBytes(js.bytes) ELSE NoneV

CoopPollRec(op, js, ret) ==
    [op |-> op, ans |-> js, ret |-> ret, hostCalls |-> Len(hostLog) + 1]

\* Request::try_recv_str (wasm32)
CoopTryRecvStr ==
    /\ Len(cpolls) < MaxCoopPolls
    /\ \E js \in HostAnswers :
          cpolls' = Append(cpolls, CoopPollRec("str", js, WasmStrResult(js)))
    /\ hostLog' = Append(hostLog, cid)
    /\ UNCHANGED <<cid, madeCid, notCoopVars>>

\* Request::try_recv_bytes (wasm32)
CoopTryRecvBytes ==
    /\ Len(cpolls) < MaxCoopPolls
    /\ \E js \in HostAnswers :
          cpolls' = Append(cpolls, CoopPollRec("bytes", js, WasmBytesResult(js)))
    /\ hostLog' = Append(hostLog, cid)
    /\ UNCHANGED <<cid, madeCid, notCoopVars>>

CoopIdle ==
    /\ cid = -1
    /\ madeCid = -1
    /\ hostLog = <<>>
    /\ cpolls = <<>>

----------------------------------------------------------------------------
(* Specifications: one per family, the other families idle.                *)

ReqIdle ==
    /\ wpc = "idle"
    /\ response = ErrR("unset")
    /\ chan = <<>>
    /\ rxAlive = FALSE
    /\ txAlive = FALSE
    /\ delivered = FALSE
    /\ polls = <<>>
    /\ nCalls = 0
    /\ nSends = 0

InitRequest ==
    /\ BldIdle /\ RcvIdle /\ SndIdle /\ CoopIdle
    /\ wpc = "spawned"
    /\ response = ErrR("unset")
    /\ chan = <<>>
    /\ rxAlive = TRUE
    /\ txAlive = TRUE
    /\ delivered = FALSE
    /\ polls = <<>>
    /\ nCalls = 0
    /\ nSends = 0

NextRequest ==
    \/ WorkerCall
    \/ WorkerReturn
    \/ WorkerFault
    \/ WorkerSend
    \/ TryRecvStr
    \/ TryRecvBytes
    \/ DropRequest

SpecRequest == InitRequest /\ [][NextRequest]_vars

\* The worker thread is scheduled (it takes its next step when it has one,
\* though the transport call itself need not return), and the caller polls
\* through try_recv_str only, again and again, or drops the handle.
NextWorker ==
    \/ WorkerCall
    \/ WorkerReturn
    \/ WorkerFault
    \/ WorkerSend
    \/ TryRecvStr
    \/ DropRequest

SpecWorkerFair ==
    /\ InitRequest
    /\ [][NextWorker]_vars
    /\ WF_vars(WorkerCall)
    /\ WF_vars(WorkerSend)
    /\ WF_vars(TryRecvStr)

InitBuilder ==
    /\ ReqIdle /\ RcvIdle /\ SndIdle /\ CoopIdle
    /\ target \in {"native", "wasm32"}
    /\ \E u \in Urls :
          /\ builder = BuilderNew(u)
          /\ calls = <<Call("new", u, <<>>)>>
    /\ bpc = "building"
    /\ sentFrom = BuilderNew(<<>>)
    /\ ureqReq = NoUreqReq
    /\ hostCall = NoHostCall
    /\ nHostCalls = 0

NextBuilder ==
    \/ SetMethod
    \/ AddHeader
    \/ AddQuery
    \/ SetBody
    \/ SendThreaded
    \/ SendWasm

SpecBuilder == InitBuilder /\ [][NextBuilder]_vars

\* After TcpSocket::connect: the reader thread runs with a new MessageReader,
\* nothing has arrived and the delivery queue is empty.
RcvStart ==
    /\ peerFrames = <<>>
    /\ stream = <<>>
    /\ rpos = 0
    /\ rdLen = MessageReaderNew.len
    /\ rdBuf = MessageReaderNew.buf
    /\ queue = <<>>
    /\ tpc = "running"
    /\ sockAlive = TRUE
    /\ readFailed = FALSE
    /\ pushedAfterErr = FALSE
    /\ pushed = <<>>
    /\ recvs = <<>>

InitTcp == ReqIdle /\ BldIdle /\ SndIdle /\ CoopIdle /\ RcvStart

NextTcp ==
    \/ PeerWrite
    \/ ReaderStep
    \/ ReaderReadErr
    \/ TcpTryRecv
    \/ DropSocket

SpecTcp == InitTcp /\ [][NextTcp]_vars

\* After TcpSocket::connect, the write half in the foreground's hands.
InitSend ==
    /\ ReqIdle /\ BldIdle /\ CoopIdle /\ RcvStart
    /\ outWire = <<>>
    /\ sends = <<>>
    /\ fgpc = "running"

NextSend == TcpSend

SpecSend == InitSend /\ [][NextSend]_vars

\* Both directions of one TcpSocket: the foreground thread calls send and
\* try_recv (and may drop the socket) while the reader thread decodes.  A
\* foreground thread that panicked in send makes no further call.
InitSock == InitSend

NextSock ==
    \/ Len(peerFrames) < MaxSockFrames /\ PeerWrite
    \/ ReaderStep
    \/ ReaderReadErr
    \/ fgpc = "running" /\ Len(recvs) < MaxSockRecvs /\ TcpTryRecv
    \/ fgpc = "running" /\ DropSocket
    \/ Len(sends) < MaxSockSends /\ TcpSend

SpecSock == InitSock /\ [][NextSock]_vars

\* After send() (wasm32): Request { cid } with the id the host returned.
InitCoop ==
    /\ ReqIdle /\ BldIdle /\ RcvIdle /\ SndIdle
    /\ cid \in CorrelationIds
    /\ madeCid = cid
    /\ hostLog = <<>>
    /\ cpolls = <<>>

NextCoop ==
    \/ CoopTryRecvStr
    \/ CoopTryRecvBytes

SpecCoop == InitCoop /\ [][NextCoop]_vars

----------------------------------------------------------------------------
(* Threaded Request: properties                                            *)

PollIdx == 1..Len(polls)
NonPending == { i \in PollIdx : polls[i].ret # NoneV }
AfterIdx == { i \in PollIdx : polls[i].after }
StrAfter == { i \in AfterIdx : polls[i].op = "str" }
BytesAfter == { i \in AfterIdx : polls[i].op = "bytes" }
MinOf(S) == CHOOSE m \in S : \A x \in S : m <= x

DeliveredUtf8 == delivered /\ response.ok /\ Utf8From(response.val, 1).ok
DeliveredNotUtf8 == delivered /\ response.ok /\ ~Utf8From(response.val, 1).ok

\* The value the first poll after delivery must give, by polling path.
FirstOutcome(op) ==
    IF op = "str" THEN FromUtf8(response.val) ELSE SomeBytes(response.val)

\* C1: over any interleaving of the worker's delivery with try_recv_str and
\* try_recv_bytes polls on one handle, at most one poll returns a value
\* other than pending: never a success and an error, never two of either.
C1_AtMostOneOutcome == Cardinality(NonPending) <= 1

C1_Witness ==
    /\ Len(polls) >= 3
    /\ \E i \in NonPending : i < Len(polls)
    /\ \E i, j \in AfterIdx : polls[i].op = "str" /\ polls[j].op = "bytes"

\* C2 (as claimed): once Ok(valid UTF-8) is delivered, the first
\* try_recv_str poll after delivery returned Some(Ok(decoded)), every poll
\* before delivery returned None, and every poll after that one returns None.
C2_FirstStrPollGetsString ==
    DeliveredUtf8 =>
        /\ \A i \in PollIdx \ AfterIdx : polls[i].ret = NoneV
        /\ StrAfter # {} =>
              LET f == MinOf(StrAfter)
              IN  /\ polls[f].ret = SomeOk(Utf8From(response.val, 1).chars)
                  /\ \A j \in PollIdx : j > f => polls[j].ret = NoneV

\* C2 (amended): once Ok(valid UTF-8) is delivered, the first poll of either
\* kind made after delivery takes the result: a try_recv_str poll returns
\* Some(Ok(decoded)), a try_recv_bytes poll the bytes; so the first
\* try_recv_str poll returns the string provided no try_recv_bytes poll came
\* between delivery and it.  Every poll before delivery returned None and
\* every poll after the first one after delivery returns None.
C2_FirstPollGetsContent ==
    DeliveredUtf8 =>
        /\ \A i \in PollIdx \ AfterIdx : polls[i].ret = NoneV
        /\ AfterIdx # {} =>
              LET f == MinOf(AfterIdx)
              IN  /\ polls[f].ret =
                        IF polls[f].op = "str"
                        THEN SomeOk(Utf8From(response.val, 1).chars)
                        ELSE SomeBytes(response.val)
                  /\ \A j \in PollIdx : j > f => polls[j].ret = NoneV

C2_Witness ==
    /\ DeliveredUtf8
    /\ response.val = <<195, 169>>
    /\ PollIdx \ AfterIdx # {}
    /\ \E f \in StrAfter :
          /\ polls[f].ret = SomeOk(<<233>>)
          /\ \E j \in StrAfter : j > f

\* C3: while the transport call has not returned, every poll of either kind
\* returned None (never a value, never an error); and in every worker state
\* a poll on a live handle is enabled at once: it never waits on the worker.
C3_PendingWhileInFlight ==
    /\ wpc = "calling" => \A i \in PollIdx : polls[i].ret = NoneV
    /\ (rxAlive /\ Len(polls) < MaxPolls) =>
           (ENABLED TryRecvStr) /\ (ENABLED TryRecvBytes)

C3_Witness ==
    /\ wpc = "calling"
    /\ Len(polls) >= 3
    /\ \E i, j \in PollIdx : polls[i].op = "str" /\ polls[j].op = "bytes"

C5_WorkerNeverFaults == ~rxAlive => wpc # "panicked"

----------------------------------------------------------------------------
(* RequestBuilder and send(): properties                                   *)

RECURSIVE SplitOn(_, _)
\* The pieces of string s between occurrences of character c.
SplitOn(s, c) ==
    IF \A i \in 1..Len(s) : s[i] # c THEN <<s>>
    ELSE LET i == CHOOSE k \in 1..Len(s) :
                     s[k] = c /\ \A j \in 1..(k-1) : s[j] # c
         IN  <<SubSeq(s, 1, i - 1)>> \o SplitOn(SubSeq(s, i + 1, Len(s)), c)

\* The key/value pairs a reader of the URL finds after its '?'.
UrlQueryPairs(url) ==
    LET parts == SplitOn(url, "?")
    IN  IF Len(parts) < 2 THEN <<>>
        ELSE LET items == SplitOn(parts[2], "&")
             IN  [i \in 1..Len(items) |->
                    LET kv == SplitOn(items[i], "=")
                    IN  <<kv[1], IF Len(kv) >= 2 THEN kv[2] ELSE <<>>>>]

\* C10: after send(), in either realization, what was handed to the
\* transport holds every header pair and every query pair of the builder,
\* in insertion order and with the same multiplicity.
C10_PairsPreserved ==
    bpc = "sent" =>
        IF target = "native"
        THEN /\ ureqReq.headers = sentFrom.headers
             /\ ureqReq.query = sentFrom.query
        ELSE /\ hostCall.headers = sentFrom.headers
             /\ UrlQueryPairs(hostCall.url) = sentFrom.query

----------------------------------------------------------------------------
(* TcpSocket, receive direction: properties                                *)

RecvIdx == 1..Len(recvs)
\* Number of try_recv calls among the first i that returned a message.
SomeUpTo(i) == Cardinality({ j \in 1..i : recvs[j].some })
SomeIdx == { i \in RecvIdx : recvs[i].some }

\* C6: the messages try_recv returns are the frame payloads in the order the
\* frames completed, each once and whole: the n-th message returned is the
\* n-th frame's payload; and a try_recv returns None exactly when every
\* frame the decode loop had completed by then was already returned.
C6_FifoWholeFrames ==
    /\ SomeUpTo(Len(recvs)) <= Len(peerFrames)
    /\ \A i \in SomeIdx : recvs[i].val = peerFrames[SomeUpTo(i)]
    /\ \A i \in RecvIdx : recvs[i].some <=> SomeUpTo(i - 1) < recvs[i].npushed

\* The frames [3,"abc"], [0,""], [5,"hello"] were fed; three try_recv calls
\* returned them in that order and a fourth returned None.
C6_Witness ==
    /\ peerFrames = << <<97, 98, 99>>, <<>>, <<104, 101, 108, 108, 111>> >>
    /\ Len(recvs) = 4
    /\ recvs[1].some /\ recvs[1].val = <<97, 98, 99>>
    /\ recvs[2].some /\ recvs[2].val = <<>>
    /\ recvs[3].some /\ recvs[3].val = <<104, 101, 108, 108, 111>>
    /\ ~recvs[4].some

\* The bytes the reader holds for the frame in progress.
Partial == IF rdLen = -1 THEN <<>> ELSE <<rdLen>> \o rdBuf

\* C7: however the stream of well-formed frames is chopped into reads, the
\* messages next() has returned are the payloads of the first frames, in
\* order; the bytes consumed are exactly those messages' frames followed by
\* the frame in progress (none lost, none twice); and the frame in progress
\* is incomplete, so next() answers "not ready" exactly while it is.
C7_Resumable ==
    /\ Len(pushed) <= Len(peerFrames)
    /\ pushed = SubSeq(peerFrames, 1, Len(pushed))
    /\ Frames(pushed) \o Partial = SubSeq(stream, 1, rpos)
    /\ rdLen # -1 => Len(rdBuf) < rdLen

\* One frame was returned and the next is in progress: its length byte and
\* two of its five payload bytes are held, more bytes are still unread.
C7_Witness ==
    /\ pushed = << <<97, 98, 99>> >>
    /\ rdLen = 5 /\ rdBuf = <<104, 101>>
    /\ Len(stream) > rpos

----------------------------------------------------------------------------
(* TcpSocket::send: properties                                             *)

RECURSIVE DecodeFrom(_, _)
\* The messages a peer running the framing protocol decodes from `bytes`,
\* starting in reader state rd.
DecodeFrom(rd, bytes) ==
    LET r == MessageReaderNext(rd, bytes, Len(bytes))
    IN  IF r.some
        THEN <<r.msg>> \o DecodeFrom(r.rd, SubSeq(bytes, r.used + 1, Len(bytes)))
        ELSE <<>>

SentData == [i \in 1..Len(sends) |-> sends[i].data]

\* C8: sends of payloads of 0..255 bytes put on the wire, for each payload
\* p in call order, one length byte Len(p) and then the Len(p) bytes of p,
\* so that a peer decoding the wire receives exactly the payloads sent.
C8_SendRoundTrips ==
    (\A i \in 1..Len(sends) :
        sends[i].completed /\ Len(sends[i].data) <= 255) =>
        /\ outWire = Frames(SentData)
        /\ DecodeFrom(MessageReaderNew, outWire) = SentData

\* C9: send never puts on the wire a length byte that differs from the
\* number of payload bytes it then writes: a payload of 256 bytes or more is
\* not sent with its length wrapped modulo 256 in front of the full payload.
C9_NoWrappedLength ==
    \A i \in 1..Len(sends) :
        (sends[i].completed /\ sends[i].wrote = Len(sends[i].data)) =>
            sends[i].lenByte = sends[i].wrote

----------------------------------------------------------------------------
(* TcpSocket, read failures: properties                                    *)

\* The messages try_recv has returned, in order.
RECURSIVE Returned(_)
Returned(i) ==
    IF i = 0 THEN <<>>
    ELSE IF recvs[i].some THEN Append(Returned(i - 1), recvs[i].val)
    ELSE Returned(i - 1)

\* C11: once a read has failed on the reader thread, the loop is still
\* running (while the socket lives) and can take its next iteration; every
\* frame completed, before or after the failure, went onto the delivery
\* queue, where it waits or from where try_recv returned it; and a try_recv
\* gave the caller a frame's payload or None, nothing else.
C11_ReadErrorsSwallowed ==
    readFailed =>
        /\ sockAlive => tpc = "running"
        /\ tpc = "running" => ENABLED ReaderStep
        /\ sockAlive => Returned(Len(recvs)) \o queue = pushed
        /\ pushed = SubSeq(peerFrames, 1, Len(pushed))
        /\ \A i \in RecvIdx : ~recvs[i].some => recvs[i].val = <<>>

\* A read failed, a frame completed afterwards and was returned by try_recv,
\* and a later try_recv found nothing.
C11_Witness ==
    /\ pushedAfterErr
    /\ Len(pushed) = 1
    /\ \E i, j \in RecvIdx : i < j /\ recvs[i].some /\ ~recvs[j].some

----------------------------------------------------------------------------
(* Threaded Request, every outcome: properties                             *)

\* C12: once the worker has delivered its Result, Ok or Err, the first poll
\* made afterwards, through either path, returns that result and not
\* pending, and every later poll returns pending: no outcome, an error
\* included, is consumed by a poll that reports pending.
C12_ResultExactlyOnce ==
    (delivered /\ AfterIdx # {}) =>
        LET f == MinOf(AfterIdx)
        IN  /\ polls[f].ret # NoneV
            /\ response.ok => polls[f].ret = FirstOutcome(polls[f].op)
            /\ (~response.ok /\ polls[f].op = "str") =>
                   polls[f].ret = SomeErr(response.err)
            /\ \A j \in PollIdx : j > f => polls[j].ret = NoneV

\* C13: the worker makes one transport call and never a second one, makes
\* at most one send, and once the call has returned it goes on to make
\* exactly one send and ends; and when the result is delivered to a caller
\* that keeps polling try_recv_str (with polls left) on a live handle, a
\* poll returns a result that is not pending.
C13_OneCallOneSendThenResult ==
    /\ [](nCalls <= 1 /\ nSends <= 1)
    /\ [](wpc \in {"calling", "sending"} => nCalls = 1 /\ nSends = 0)
    /\ (wpc = "sending") ~> (wpc \in {"done", "panicked"} /\ nSends = 1)
    /\ (delivered /\ Len(polls) < MaxPolls) ~> (NonPending # {} \/ ~rxAlive)

\* The call failed, the worker sent the error once and ended, and the caller,
\* having polled in vain before, got the error from try_recv_str.
C13_Witness ==
    /\ wpc = "done" /\ nCalls = 1 /\ nSends = 1
    /\ ~response.ok
    /\ rxAlive
    /\ Len(polls) >= 2
    /\ polls[1].ret = NoneV
    /\ polls[Len(polls)].ret = SomeErr(response.err)

\* C18: when the worker ended without delivering (its Sender dropped before
\* any send), every poll of either kind returned None, as for a request in
\* flight: the disconnected channel is never reported as an error; and the
\* polls stay enabled.
C18_DeadWorkerLooksPending ==
    (wpc = "faulted") =>
        /\ ~delivered /\ ~txAlive /\ nSends = 0
        /\ \A i \in PollIdx : polls[i].ret = NoneV
        /\ (rxAlive /\ Len(polls) < MaxPolls) =>
               (ENABLED TryRecvStr) /\ (ENABLED TryRecvBytes)

\* The worker is dead and the caller has polled, both ways, since then.
C18_Witness ==
    /\ wpc = "faulted"
    /\ \E i, j \in PollIdx :
          /\ ~polls[i].conn /\ polls[i].op = "str"
          /\ ~polls[j].conn /\ polls[j].op = "bytes"

----------------------------------------------------------------------------
(* RequestBuilder and cooperative send(): further properties               *)

RECURSIVE ExpectedQuery(_)
\* k1=v1&k2=v2&..., written out from the last pair backwards.
ExpectedQuery(q) ==
    LET last == q[Len(q)][1] \o <<"=">> \o q[Len(q)][2]
    IN  IF Len(q) = 1 THEN last
        ELSE ExpectedQuery(SubSeq(q, 1, Len(q) - 1)) \o <<"&">> \o last

\* C16: cooperative send() issues exactly one http_make_request call, with
\* scheme code Post=0, Put=1, Get=2, Delete=3, with the builder's body or
\* the empty string when none was set, and with the builder URL unchanged
\* when there is no query parameter and otherwise url?k=v&k=v.. in
\* insertion order, not encoded; before send() no call has been issued.
C16_OneHostCallAsBuilt ==
    /\ (target = "wasm32" /\ bpc = "building") => nHostCalls = 0
    /\ (target = "wasm32" /\ bpc = "sent") =>
          /\ nHostCalls = 1
          /\ sentFrom.method = "Post" => hostCall.scheme = 0
          /\ sentFrom.method = "Put" => hostCall.scheme = 1
          /\ sentFrom.method = "Get" => hostCall.scheme = 2
          /\ sentFrom.method = "Delete" => hostCall.scheme = 3
          /\ sentFrom.body.some => hostCall.body = sentFrom.body.val
          /\ ~sentFrom.body.some => hostCall.body = <<>>
          /\ sentFrom.query = <<>> => hostCall.url = sentFrom.url
          /\ sentFrom.query # <<>> =>
                hostCall.url =
                    sentFrom.url \o <<"?">> \o ExpectedQuery(sentFrom.query)

\* A Put with no body and two query parameters has been sent.
C16_Witness ==
    /\ target = "wasm32" /\ bpc = "sent"
    /\ sentFrom.method = "Put"
    /\ ~sentFrom.body.some
    /\ Len(sentFrom.query) = 2
    /\ sentFrom.query[1] # sentFrom.query[2]

CallIdx(op) == { i \in 1..Len(calls) : calls[i].op = op }

MaxIdx(S) == CHOOSE i \in S : \A j \in S : j <= i

RECURSIVE PairsOf(_, _)
\* The (a, b) arguments of the first n calls that are `op` calls, in order.
PairsOf(op, n) ==
    IF n = 0 THEN <<>>
    ELSE IF calls[n].op = op
         THEN Append(PairsOf(op, n - 1), <<calls[n].a, calls[n].b>>)
         ELSE PairsOf(op, n - 1)

\* C17: after new(url) and any sequence of method/header/query/body calls,
\* url is the original url, method is the last method set (Get if none),
\* body is the last body set (None if none), and headers and query are the
\* appended pairs in call order.
C17_FieldsFollowCalls ==
    (bpc \in {"building", "sent"}) =>
        /\ builder.url = calls[1].a
        /\ builder.method =
              IF CallIdx("method") = {} THEN "Get"
              ELSE calls[MaxIdx(CallIdx("method"))].a
        /\ builder.body.some = (CallIdx("body") # {})
        /\ CallIdx("body") # {} =>
              builder.body.val = calls[MaxIdx(CallIdx("body"))].a
        /\ CallIdx("body") = {} => builder.body = NoBody
        /\ builder.headers = PairsOf("header", Len(calls))
        /\ builder.query = PairsOf("query", Len(calls))

\* body, then header, then method: the body and the header survive method().
C17_Witness ==
    /\ Len(calls) = 4
    /\ calls[2].op = "body" /\ calls[3].op = "header" /\ calls[4].op = "method"
    /\ calls[4].a = "Delete"
    /\ builder.body = SomeBody(calls[2].a)
    /\ Len(builder.headers) = 1

----------------------------------------------------------------------------
(* TcpSocket: the two directions together                                  *)

RECURSIVE WireOf(_)
\* What the send calls with payloads ds ask to be written: for each payload
\* its length byte as send computes it, then the payload.
WireOf(ds) ==
    IF ds = <<>> THEN <<>>
    ELSE WireOf(SubSeq(ds, 1, Len(ds) - 1))
           \o <<Len(ds[Len(ds)]) % 256>> \o ds[Len(ds)]

\* The directions share no state: a foreground send leaves the receive side
\* as it is, a step of the receive side leaves the write half as it is; the
\* delivery queue grows only by the reader thread's push and shrinks only
\* by try_recv (or the drop of the socket); the reader's position and
\* decoder state change in no foreground operation.
DirectionsSeparate ==
    /\ sends' # sends => UNCHANGED rcvVars
    /\ rcvVars' # rcvVars => UNCHANGED sndVars
    /\ Len(queue') > Len(queue) =>
          /\ Len(pushed') = Len(pushed) + 1
          /\ queue' = Append(queue, pushed'[Len(pushed')])
          /\ recvs' = recvs
    /\ Len(queue') < Len(queue) =>
          /\ pushed' = pushed
          /\ \/ Len(recvs') = Len(recvs) + 1 /\ queue' = Tail(queue)
             \/ sockAlive /\ ~sockAlive'
    /\ (recvs' # recvs \/ sockAlive' # sockAlive) =>
          UNCHANGED <<rpos, rdLen, rdBuf, pushed, tpc>>

\* C14: under any interleaving of send and try_recv with the reader
\* thread's steps the two directions do not interfere: the messages
\* try_recv has returned are the first frames that arrived on the read
\* side, in order; the bytes written to the stream are determined by the
\* payloads of the send calls alone (when no send failed); each channel has
\* one writer and one reader; and send and try_recv never wait for the
\* reader thread (they can run whenever the socket is alive).
C14_DirectionsDoNotInterfere ==
    /\ [](/\ Returned(Len(recvs)) =
                SubSeq(peerFrames, 1, Len(Returned(Len(recvs))))
          /\ (\A i \in 1..Len(sends) : sends[i].completed) =>
                outWire = WireOf(SentData)
          /\ (sockAlive /\ fgpc = "running") =>
                /\ Len(recvs) < MaxSockRecvs => ENABLED TcpTryRecv
                /\ Len(sends) < MaxSockSends => ENABLED TcpSend)
    /\ [][DirectionsSeparate]_vars

----------------------------------------------------------------------------
(* TcpSocket: the life of the reader thread                                *)

\* The reader thread leaves its loop in this step.
ReaderExits == tpc = "running" /\ tpc' # "running"

\* next() returns a complete frame in this step.
FrameCompletes == Len(pushed') = Len(pushed) + 1

\* C19: the reader loop is left in one way only: the TcpSocket has been
\* dropped and a frame then completes, the push fails and the thread
\* panics.  While the TcpSocket is alive the thread is in its loop; after
\* the drop it stays in the loop through every step that completes no
\* frame, and it can always take its next iteration.
C19_ReaderExitsOnlyByFailedPush ==
    /\ [](tpc \in {"running", "panicked"})
    /\ [](sockAlive => tpc = "running")
    /\ [](tpc = "running" => ENABLED ReaderStep)
    /\ [][ReaderExits => (~sockAlive /\ FrameCompletes /\ tpc' = "panicked")]_vars
    /\ [][(~sockAlive /\ tpc = "running" /\ FrameCompletes)
             => tpc' = "panicked"]_vars
    /\ [][(~sockAlive /\ tpc = "running" /\ ~FrameCompletes)
             => tpc' = "running"]_vars

\* A first frame was delivered and received, the socket was dropped, the
\* thread went on reading, and the second frame's completion ended it.
C19_Witness ==
    /\ tpc = "panicked"
    /\ ~sockAlive
    /\ Len(pushed) = 2
    /\ \E i \in RecvIdx : recvs[i].some
    /\ readFailed

----------------------------------------------------------------------------
(* Cooperative Request: properties                                         *)

CoopIdx == 1..Len(cpolls)

\* C15: the cooperative Request keeps nothing but its correlation id: each
\* poll makes exactly one http_try_recv call, with the id send() got; it
\* returns None exactly when the host answers nil, and otherwise the host's
\* payload (decoded, for try_recv_str); so what a poll returns is settled by
\* the host's answer to that poll alone, and a host that answers with a
\* payload again gets it returned again.
C15_PollIsOneHostCall ==
    /\ cid = madeCid
    /\ Len(hostLog) = Len(cpolls)
    /\ \A i \in CoopIdx :
          /\ cpolls[i].hostCalls = i
          /\ hostLog[i] = madeCid
          /\ (cpolls[i].ret = NoneV) <=> cpolls[i].ans.nil
          /\ (~cpolls[i].ans.nil /\ cpolls[i].op = "bytes") =>
                cpolls[i].ret = SomeBytes(cpolls[i].ans.bytes)
          /\ (~cpolls[i].ans.nil /\ cpolls[i].op = "str") =>
                cpolls[i].ret = FromUtf8(cpolls[i].ans.bytes)
    /\ Len(cpolls) < MaxCoopPolls =>
          (ENABLED CoopTryRecvStr) /\ (ENABLED CoopTryRecvBytes)

\* The host answered nil, then the same payload twice: the first poll was
\* pending and both later polls returned the payload.
C15_Witness ==
    /\ Len(cpolls) = 3
    /\ cpolls[1].ret = NoneV
    /\ cpolls[2].ans = JsBuffer(<<104, 105>>)
    /\ cpolls[3].ans = cpolls[2].ans
    /\ cpolls[2].op = "str" /\ cpolls[3].op = "bytes"
    /\ cpolls[2].ret # NoneV /\ cpolls[3].ret # NoneV

====
